---- MODULE Spec2Model ----
(***************************************************************************)
(* The conversational request lifecycle of the TAUROS chat front-end:      *)
(* ChatScreen (state, handleSend, handleMessageChange, navigation), the    *)
(* API layer (chatAPI.sendMessage, APIError) and the clock the exchanges   *)
(* are stamped with.                                                       *)
(*                                                                         *)
(* Texts typed by the user are sequences of one-character strings, so that *)
(* String.prototype.trim is computed and not assumed.  Replies and notices *)
(* are opaque strings.                                                     *)
(***************************************************************************)
EXTENDS Integers, Sequences, FiniteSets, TLC

VARIABLES
    message,          \* useState<string>('')            : the input buffer
    currentResponse,  \* useState<string>('')            : the transient reply slot
    isLoading,        \* useState<boolean>(false)
    chatHistory,      \* useState<ChatMessage[]>([])
    rendered,         \* what the last committed render handed to the widgets
    inflight,         \* apiClient.post calls that have not resolved yet
    clock,            \* the latest reading taken of the clock
    route,            \* the screen the stack navigator shows
    lastOp,           \* history: the step taken last
    notice,           \* history: the Alert.alert calls of the last step
    lastCall,         \* history: how the last chatAPI.sendMessage completed
    sent,             \* history: one record per accepted submit
    posts,            \* history: number of apiClient.post invocations
    clsIn,            \* classifier harness: the APIError under test
    clsOut,           \* classifier harness: its getUserMessage()
    boundary,         \* state of each ErrorBoundary: "healthy" or "faulted"
    lazy,             \* status of each React.lazy screen
    loads,            \* history: number of import() calls made for each screen
    navs              \* history: number of navigations to Settings

vars == <<message, currentResponse, isLoading, chatHistory, rendered, inflight,
          clock, route, lastOp, notice, lastCall, sent, posts, clsIn, clsOut,
          boundary, lazy, loads, navs>>

-----------------------------------------------------------------------------
(* Bounds of the model *)

MaxSends == 2      \* accepted submits per behaviour

-----------------------------------------------------------------------------
(* Texts *)

Whitespace == {" ", "\n", "\t"}

\* The texts the user types into the TextInput.
Texts ==
    { <<>>,
      <<" ", "\n">>,
      <<" ", "a", " ">>,
      <<"\t", "b", " ", "c", "\n">> }

\* maxLength={1000} of the TextInput
MaxLength == 1000

limitLength_unlimited(t) == t

\* what the TextInput keeps of a text typed or pasted into it
limitLength(t) == IF Len(t) <= MaxLength THEN t ELSE SubSeq(t, 1, MaxLength)

\* the positions of s that hold no whitespace
Solid(s) == {k \in 1..Len(s) : s[k] \notin Whitespace}

Least(S)    == CHOOSE k \in S : \A j \in S : k <= j
Greatest(S) == 0 - Least({0 - k : k \in S})

\* s from its first character that is no whitespace on
TrimStart(s) ==
    LET solid == Solid(s)
    IN  IF solid = {} THEN <<>> ELSE SubSeq(s, Least(solid), Len(s))

\* s up to its last character that is no whitespace
TrimEnd(s) ==
    LET solid == Solid(s)
    IN  IF solid = {} THEN <<>> ELSE SubSeq(s, 1, Greatest(solid))

\* String.prototype.trim
Trim(s) == TrimEnd(TrimStart(s))

\* JavaScript truthiness of a string: '' is falsy.
Falsy(s) == s = <<>>

IsBlank_noTrim(text) == Falsy(text)

\* !message.trim()
IsBlank(text) == Falsy(Trim(text))

Digit(n) == CASE n = 0 -> "0" [] n = 1 -> "1" [] n = 2 -> "2" [] n = 3 -> "3"
              [] n = 4 -> "4" [] n = 5 -> "5" [] n = 6 -> "6" [] n = 7 -> "7"
              [] n = 8 -> "8" [] n = 9 -> "9"

\* Number.prototype.toString for a non-negative integer
RECURSIVE NumToString(_)
NumToString(n) ==
    IF n < 10 THEN <<Digit(n)>>
    ELSE Append(NumToString(n \div 10), Digit(n % 10))

-----------------------------------------------------------------------------
(* The API layer *)

NoCode == "undefined"

TimeoutMessage     == "Timeout della richiesta. Riprova."
NetworkMessage     == "Impossibile connettersi al server."
ServerMessage      == "Errore interno del server."
ClientMessage      == "Richiesta non valida."
UnknownMessage     == "Errore nel contatto con TAUROS."
Placeholder        == "Risposta non disponibile"

ValidationNotice == [title |-> "Attenzione",
                     text  |-> "Inserisci un messaggio prima di inviare."]
ErrorNotice(m)   == [title |-> "Errore", text |-> m]

\* new APIError(message, statusCode, code)
APIError(m, status, code) ==
    [isAPIError |-> TRUE, message |-> m, statusCode |-> status, code |-> code]

\* a thrown value that is no APIError (a TypeError)
OtherError(m) ==
    [isAPIError |-> FALSE, message |-> m, statusCode |-> 0, code |-> NoCode]

NoError == [isAPIError |-> FALSE, message |-> "", statusCode |-> 0, code |-> NoCode]

\* statusCode ranges over the integers, for which !statusCode is the same
\* as statusCode === 0
isTimeoutError(e) == e.code = "ECONNABORTED"
isNetworkError(e) == e.statusCode = 0
isServerError(e)  == e.statusCode >= 500
isClientError(e)  == e.statusCode >= 400 /\ e.statusCode < 500

getUserMessage_networkFirst(e) ==
    IF isNetworkError(e) THEN NetworkMessage
    ELSE IF isTimeoutError(e) THEN TimeoutMessage
    ELSE IF isServerError(e) THEN ServerMessage
    ELSE IF isClientError(e) THEN ClientMessage
    ELSE UnknownMessage

getUserMessage(e) ==
    IF isTimeoutError(e) THEN TimeoutMessage
    ELSE IF isNetworkError(e) THEN NetworkMessage
    ELSE IF isServerError(e) THEN ServerMessage
    ELSE IF isClientError(e) THEN ClientMessage
    ELSE UnknownMessage

\* The response bodies the endpoint answers with (response.data).
Body(isNull, has, r) == [isNull |-> isNull, hasResponse |-> has, response |-> r]
NullBody == Body(TRUE, FALSE, "")
NoBody   == Body(FALSE, FALSE, "")
Bodies ==
    { Body(FALSE, TRUE, "r1"), Body(FALSE, TRUE, ""), NoBody, NullBody }

\* What apiClient.post settles with: a response, an AxiosError, or another fault.
Fulfilled(b) ==
    [ok |-> TRUE, data |-> b, isAxios |-> FALSE, message |-> "",
     hasResponse |-> TRUE, status |-> 200, code |-> NoCode]
AxiosError(m, has, status, code) ==
    [ok |-> FALSE, data |-> NoBody, isAxios |-> TRUE, message |-> m,
     hasResponse |-> has, status |-> status, code |-> code]
Fault(m) ==
    [ok |-> FALSE, data |-> NoBody, isAxios |-> FALSE, message |-> m,
     hasResponse |-> FALSE, status |-> 0, code |-> NoCode]

Rejections ==
    { AxiosError("timeout of 30000ms exceeded", FALSE, 0, "ECONNABORTED"),
      AxiosError("Network Error", FALSE, 0, "ERR_NETWORK"),
      AxiosError("", FALSE, 0, NoCode),
      AxiosError("Request failed with status code 404", TRUE, 404, "ERR_BAD_REQUEST"),
      AxiosError("Request failed with status code 500", TRUE, 500, "ERR_BAD_RESPONSE"),
      AxiosError("Request failed with status code 304", TRUE, 304, NoCode),
      Fault("Converting circular structure to JSON") }

Settlements == {Fulfilled(b) : b \in Bodies} \cup Rejections

Returned(b) == [how |-> "return", data |-> b, error |-> NoError]
Threw(e)    == [how |-> "throw", data |-> NoBody, error |-> e]
NoCall      == [how |-> "none", data |-> NoBody, error |-> NoError]

sendMessage_rethrows(s) ==
    IF s.ok THEN Returned(s.data)
    ELSE Threw(OtherError(s.message))

\* chatAPI.sendMessage, from the settlement of its apiClient.post on
sendMessage(s) ==
    IF s.ok THEN Returned(s.data)
    ELSE IF s.isAxios
         THEN Threw(APIError(IF s.message = "" THEN "Network error" ELSE s.message,
                             IF s.hasResponse /\ s.status # 0 THEN s.status ELSE 0,
                             s.code))
         ELSE Threw(APIError("Unknown error occurred", 0, NoCode))

Reissue_retry(s) == ~s.ok

\* whether chatAPI.sendMessage posts again once its call settled with s:
\* its catch block only throws
Reissue(s) == FALSE

-----------------------------------------------------------------------------
(* ChatScreen *)

\* What a render hands down: the message handleSend closes over, the send
\* button's disabled prop and the TextInput's editable prop.
Render(msg, loading) ==
    [message |-> msg, disabled |-> loading, editable |-> ~loading]

messageOnSubmit_kept(raw) == raw

\* setMessage(''), whatever the text submitted
messageOnSubmit(raw) == <<>>

LoadingOnSubmit_forgotten == FALSE

\* setIsLoading(true)
LoadingOnSubmit == TRUE

responseText_noFallback(body) == body.response

\* response.response || 'Risposta non disponibile'
responseText(body) ==
    IF body.hasResponse /\ body.response # "" THEN body.response ELSE Placeholder

newMessage_untrimmed(raw, text, reply, now, later) ==
    [id |-> NumToString(now), message |-> raw, response |-> reply,
     timestamp |-> later]

\* the ChatMessage built on the success path; raw is the closure's message,
\* text is messageToSend
newMessage(raw, text, reply, now, later) ==
    [id |-> NumToString(now), message |-> text, response |-> reply,
     timestamp |-> later]

appendExchange_prepends(prev, m) == <<m>> \o prev

\* setChatHistory(prev => [...prev, newMessage])
appendExchange(prev, m) == Append(prev, m)

loadingOnSettle_successOnly(succeeded) == ~succeeded

\* finally: setIsLoading(false), after the try block as after the catch block
loadingOnSettle(succeeded) == FALSE

\* the value handleSend's catch block receives, where there is one
Caught(c) ==
    IF c.how = "throw" THEN c.error
    ELSE OtherError("Cannot read properties of null (reading 'response')")

\* the try block runs to its end
Succeeds(c) == c.how = "return" /\ ~c.data.isNull

catchMessage_rawText(error) == error.message

catchMessage_alwaysDefault(error) == UnknownMessage

\* errorMessage of the catch block
catchMessage(error) ==
    IF error.isAPIError THEN getUserMessage(error) ELSE UnknownMessage

catchHistory_logsError(prev, text, errorMessage, now) ==
    Append(prev, newMessage(text, text, errorMessage, now, now))

catchHistory_clears(prev, text, errorMessage, now) == <<>>

\* the catch block makes no call to setChatHistory
catchHistory(prev, text, errorMessage, now) == prev

-----------------------------------------------------------------------------
(* The state machine *)

Routes == {"Chat", "Settings"}

Boundaries == {"App", "Chat", "Settings"}

\* The shell once App has rendered with Chat, the initial route, on the
\* stack: the three boundaries are healthy, the import of ChatScreen was
\* started by that render (chatStatus says how far it is) and the one of
\* SettingsScreen was not.
ShellWith(chatStatus) ==
    /\ boundary = [b \in Boundaries |-> "healthy"]
    /\ lazy = [s \in Routes |-> IF s = "Chat" THEN chatStatus ELSE "uninitialized"]
    /\ loads = [s \in Routes |-> IF s = "Chat" THEN 1 ELSE 0]
    /\ navs = 0

Init ==
    /\ message = <<>>
    /\ currentResponse = ""
    /\ isLoading = FALSE
    /\ chatHistory = <<>>
    /\ rendered = Render(<<>>, FALSE)
    /\ inflight = <<>>
    /\ clock = 0
    /\ route = "Chat"
    /\ lastOp = "init"
    /\ notice = <<>>
    /\ lastCall = [settled |-> Fulfilled(NoBody), result |-> NoCall]
    /\ sent = <<>>
    /\ posts = 0
    /\ clsIn = NoError
    /\ clsOut = ""
    /\ ShellWith("resolved")

harness == <<clsIn, clsOut>>

shell == <<boundary, lazy, loads, navs>>

\* handleMessageChange, reached through onChangeText of an editable TextInput
ChangeText(t) ==
    /\ route = "Chat"
    /\ rendered.editable
    /\ message' = limitLength(t)
    /\ rendered' = Render(message', isLoading)
    /\ lastOp' = "edit"
    /\ notice' = <<>>
    /\ UNCHANGED <<currentResponse, isLoading, chatHistory, inflight, clock, route,
                   lastCall, sent, posts, harness, shell>>

\* a press of the send button while its disabled prop is set: onPress is not called
PressDisabled ==
    /\ route = "Chat"
    /\ rendered.disabled
    /\ lastOp' = "pressDisabled"
    /\ notice' = <<>>
    /\ UNCHANGED <<message, currentResponse, isLoading, chatHistory, rendered,
                   inflight, clock, route, lastCall, sent, posts, harness, shell>>

\* handleSend up to its await: the validation, the two state updates and the
\* call of chatAPI.sendMessage, which issues apiClient.post; the render that
\* React commits at the end of the press event is part of the step
PressSend ==
    /\ route = "Chat"
    /\ ~rendered.disabled
    /\ IF IsBlank(rendered.message)
       THEN /\ lastOp' = "reject"
            /\ notice' = <<ValidationNotice>>
            /\ UNCHANGED <<message, currentResponse, isLoading, chatHistory,
                           rendered, inflight, clock, route, lastCall, sent,
                           posts, harness, shell>>
       ELSE /\ Len(sent) < MaxSends
            /\ LET messageToSend == Trim(rendered.message)
               IN  /\ message' = messageOnSubmit(rendered.message)
                   /\ isLoading' = LoadingOnSubmit
                   /\ inflight' = Append(inflight, [text |-> messageToSend,
                                                    raw  |-> rendered.message,
                                                    seq  |-> Len(sent) + 1])
                   /\ sent' = Append(sent, [raw |-> rendered.message,
                                            text |-> messageToSend,
                                            outcome |-> "pending"])
            /\ posts' = posts + 1
            /\ rendered' = Render(message', isLoading')
            /\ lastOp' = "accept"
            /\ notice' = <<>>
            /\ UNCHANGED <<currentResponse, chatHistory, clock, route, lastCall,
                           harness, shell>>

RemoveAt(s, i) == SubSeq(s, 1, i - 1) \o SubSeq(s, i + 1, Len(s))

\* handleSend from its await on, for the request req whose call completed
\* as c: the try block to its end, or the catch block, and then finally.
\* now is the reading Date.now() gives and later the one new Date() gives.
Resume(req, c, now, later) ==
    /\ isLoading' = loadingOnSettle(Succeeds(c))
    /\ IF Succeeds(c)
       THEN /\ currentResponse' = responseText(c.data)
            /\ chatHistory' =
                  appendExchange(chatHistory,
                      newMessage(req.raw, req.text, responseText(c.data),
                                 now, later))
            /\ clock' = later
            /\ sent' = [sent EXCEPT ![req.seq].outcome = "ok"]
            /\ lastOp' = "success"
            /\ notice' = <<>>
       ELSE /\ currentResponse' = catchMessage(Caught(c))
            /\ chatHistory' =
                  catchHistory(chatHistory, req.text, catchMessage(Caught(c)),
                               clock)
            /\ clock' = clock
            /\ sent' = [sent EXCEPT ![req.seq].outcome = "fail"]
            /\ lastOp' = "failure"
            /\ notice' = <<ErrorNotice(catchMessage(Caught(c)))>>

\* The apiClient.post of a request in flight settles with s: sendMessage
\* completes and the handleSend awaiting it resumes.  The clock does not go
\* backwards between readings; synchronous says whether React commits the
\* render within this step or leaves it to a later task.
Settle(s, synchronous) ==
    \E i \in 1..Len(inflight) :
        IF Reissue(s)
        THEN /\ posts' = posts + 1
             /\ lastOp' = "retry"
             /\ notice' = <<>>
             /\ UNCHANGED <<message, currentResponse, isLoading, chatHistory,
                            rendered, inflight, clock, route, lastCall, sent,
                            harness, shell>>
        ELSE /\ inflight' = RemoveAt(inflight, i)
             /\ lastCall' = [settled |-> s, result |-> sendMessage(s)]
             /\ \E now \in {clock, clock + 1} :
                   \E later \in {now, now + 1} :
                       Resume(inflight[i], sendMessage(s), now, later)
             /\ rendered' = IF synchronous THEN Render(message, isLoading')
                            ELSE rendered
             /\ UNCHANGED <<message, route, posts, harness, shell>>

\* React commits a render it had left pending
Commit ==
    /\ rendered # Render(message, isLoading)
    /\ rendered' = Render(message, isLoading)
    /\ lastOp' = "render"
    /\ notice' = <<>>
    /\ UNCHANGED <<message, currentResponse, isLoading, chatHistory, inflight,
                   clock, route, lastCall, sent, posts, harness, shell>>

\* handleNavigateToSettings: navigation.navigate(ROUTES.SETTINGS)
NavigateToSettings ==
    /\ route = "Chat"
    /\ route' = "Settings"
    /\ lastOp' = "navigate"
    /\ notice' = <<>>
    /\ UNCHANGED <<message, currentResponse, isLoading, chatHistory, rendered,
                   inflight, clock, lastCall, sent, posts, harness, shell>>

\* SettingsScreen.handleBackPress: navigation.goBack()
GoBack ==
    /\ route = "Settings"
    /\ route' = "Chat"
    /\ lastOp' = "back"
    /\ notice' = <<>>
    /\ UNCHANGED <<message, currentResponse, isLoading, chatHistory, rendered,
                   inflight, clock, lastCall, sent, posts, harness, shell>>

Next ==
    \/ \E t \in Texts : ChangeText(t)
    \/ PressDisabled
    \/ PressSend
    \/ \E s \in Settlements, synchronous \in BOOLEAN : Settle(s, synchronous)
    \/ Commit
    \/ NavigateToSettings
    \/ GoBack

Spec == Init /\ [][Next]_vars

-----------------------------------------------------------------------------
(* The classifier on its own: every APIError of ClassifierInputs is built,  *)
(* and getUserMessage is applied to it.                                     *)

StatusCodes == {0, 1, 200, 304, 399, 400, 404, 499, 500, 503, 599}
ErrorCodes ==
    {NoCode, "ECONNABORTED", "ERR_NETWORK", "ERR_BAD_REQUEST", "ERR_BAD_RESPONSE"}

ClassifierInputs ==
    {APIError("Network error", st, code) : st \in StatusCodes, code \in ErrorCodes}

InitClassifier ==
    /\ message = <<>>
    /\ currentResponse = ""
    /\ isLoading = FALSE
    /\ chatHistory = <<>>
    /\ rendered = Render(<<>>, FALSE)
    /\ inflight = <<>>
    /\ clock = 0
    /\ route = "Chat"
    /\ lastOp = "init"
    /\ notice = <<>>
    /\ lastCall = [settled |-> Fulfilled(NoBody), result |-> NoCall]
    /\ sent = <<>>
    /\ posts = 0
    /\ clsIn \in ClassifierInputs
    /\ clsOut = ""
    /\ ShellWith("resolved")

Classify ==
    /\ clsOut = ""
    /\ clsOut' = getUserMessage(clsIn)
    /\ UNCHANGED <<message, currentResponse, isLoading, chatHistory, rendered,
                   inflight, clock, route, lastOp, notice, lastCall, sent, posts,
                   clsIn, shell>>

NextClassifier == Classify

SpecClassifier == InitClassifier /\ [][NextClassifier]_vars

-----------------------------------------------------------------------------
(* Vocabulary of the properties *)

FiveMessages ==
    {TimeoutMessage, NetworkMessage, ServerMessage, ClientMessage, UnknownMessage}

AllWhitespace(s) == \A k \in 1..Len(s) : s[k] \in Whitespace

\* t is raw without the whitespace at its two ends
IsTrimOf(t, raw) ==
    \E a \in 0..Len(raw) : \E b \in a..Len(raw) :
        /\ t = SubSeq(raw, a + 1, b)
        /\ AllWhitespace(SubSeq(raw, 1, a))
        /\ AllWhitespace(SubSeq(raw, b + 1, Len(raw)))
        /\ t # <<>> => (t[1] \notin Whitespace /\ t[Len(t)] \notin Whitespace)

IsOk(r) == r.outcome = "ok"
IsResolved(r) == r.outcome # "pending"

\* the texts of the submits that resolved successfully, in submission order
OkTexts == LET ok == SelectSeq(sent, IsOk) IN [k \in 1..Len(ok) |-> ok[k].text]

HistoryTexts == [k \in 1..Len(chatHistory) |-> chatHistory[k].message]

\* the reply of a response body: its response field, or the placeholder
\* where the field is absent or empty
ReplyOf(body) ==
    CASE body.hasResponse /\ body.response # "" -> body.response
      [] body.hasResponse /\ body.response = "" -> Placeholder
      [] ~body.hasResponse -> Placeholder

\* the message the five rules give, each rule stated with the rules above it
\* excluded
RuleMessage(status, timedOut) ==
    CASE timedOut -> TimeoutMessage
      [] ~timedOut /\ status = 0 -> NetworkMessage
      [] ~timedOut /\ status >= 500 -> ServerMessage
      [] ~timedOut /\ status >= 400 /\ status < 500 -> ClientMessage
      [] ~timedOut /\ status > 0 /\ status < 400 -> UnknownMessage

\* the most recently resolved send failed
LastResolvedFailed ==
    LET done == SelectSeq(sent, IsResolved)
    IN  done # <<>> /\ done[Len(done)].outcome = "fail"

-----------------------------------------------------------------------------
(* Properties *)

\* C1: at most one send is in flight: while a request is outstanding, a press
\* of the send action issues no call and leaves chatHistory and
\* currentResponse as they are.
C1_OneSendInFlight ==
    /\ [](Len(inflight) <= 1)
    /\ [][(inflight # <<>> /\ lastOp' \in {"pressDisabled", "reject", "accept"})
            => /\ posts' = posts
               /\ inflight' = inflight
               /\ chatHistory' = chatHistory
               /\ currentResponse' = currentResponse]_vars

C1_Witness ==
    /\ lastOp = "pressDisabled"
    /\ Len(inflight) = 1
    /\ isLoading

\* C2: a press with a text that is empty or all whitespace is rejected with
\* the validation notice, which is none of the error notices: no call is
\* issued, isLoading stays false, and message, currentResponse and
\* chatHistory keep their values.
C2_BlankRejected ==
    [][(lastOp' \in {"reject", "accept"} /\ AllWhitespace(rendered.message))
         => /\ notice' = <<ValidationNotice>>
            /\ \A m \in FiveMessages : ErrorNotice(m) # ValidationNotice
            /\ ValidationNotice.text \notin FiveMessages
            /\ posts' = posts
            /\ inflight' = inflight
            /\ ~isLoading /\ ~isLoading'
            /\ message' = message
            /\ currentResponse' = currentResponse
            /\ chatHistory' = chatHistory]_vars

C2_Witness ==
    /\ lastOp = "reject"
    /\ message # <<>>
    /\ AllWhitespace(message)
    /\ notice = <<ValidationNotice>>

\* C3: chatHistory has one entry per successfully resolved send, and their
\* messages are those sends' texts in the order of submission.
C3_HistoryInSubmissionOrder ==
    /\ Len(chatHistory) = Len(SelectSeq(sent, IsOk))
    /\ HistoryTexts = OkTexts

C3_Witness ==
    /\ Len(chatHistory) = 2
    /\ chatHistory[1].message # chatHistory[2].message

\* C4: the step in which a send resolves successfully appends exactly one
\* Exchange, whose message is the text of the outbound call, which is the
\* submitted text trimmed, and whose response is the reply (the placeholder
\* for a reply that is absent or empty); currentResponse is that reply and
\* isLoading is false.
C4_SuccessCommitsExchange ==
    [][lastOp' = "success"
         => /\ Len(inflight) = 1
            /\ lastCall'.settled.ok
            /\ Len(chatHistory') = Len(chatHistory) + 1
            /\ SubSeq(chatHistory', 1, Len(chatHistory)) = chatHistory
            /\ LET e == chatHistory'[Len(chatHistory')]
               IN  /\ e.message = inflight[1].text
                   /\ IsTrimOf(e.message, inflight[1].raw)
                   /\ e.response = ReplyOf(lastCall'.settled.data)
                   /\ currentResponse' = e.response
            /\ isLoading' = FALSE]_vars

C4_Witness ==
    /\ lastOp = "success"
    /\ chatHistory # <<>>
    /\ chatHistory[Len(chatHistory)].response = "r1"
    /\ chatHistory[Len(chatHistory)].message # sent[Len(sent)].raw
    /\ currentResponse = "r1"

\* C5: chatHistory changes only in the step in which a request resolves
\* successfully: a failed send, a rejected or an accepted press, an edit and
\* a navigation leave it as it is.
C5_HistoryChangesOnlyOnSuccess ==
    [][/\ chatHistory' # chatHistory => lastOp' = "success"
       /\ lastOp' \in {"failure", "reject", "accept", "pressDisabled", "edit",
                       "navigate", "back"} => chatHistory' = chatHistory]_vars

C5_Witness ==
    /\ lastOp = "failure"
    /\ Len(chatHistory) = 1
    /\ Len(sent) = 2

\* C6: when a send fails with an APIError, currentResponse is the user
\* message of that error, and that message is the one notice raised.
C6_FailureShowsUserMessage ==
    (lastOp = "failure" /\ lastCall.result.how = "throw"
                        /\ lastCall.result.error.isAPIError)
        => /\ currentResponse = getUserMessage(lastCall.result.error)
           /\ notice = <<ErrorNotice(getUserMessage(lastCall.result.error))>>

C6_Witness ==
    /\ lastOp = "failure"
    /\ lastCall.result.error.statusCode = 500
    /\ currentResponse = ServerMessage
    /\ notice = <<ErrorNotice(ServerMessage)>>

\* C7: for every status and code, getUserMessage gives the message of the
\* first rule that applies, in the order timeout, no status, status >= 500,
\* 400 <= status < 500, otherwise; it is always one of the five messages.
C7_ClassifierFollowsRules ==
    clsOut # ""
        => /\ clsOut = RuleMessage(clsIn.statusCode, clsIn.code = "ECONNABORTED")
           /\ clsOut \in FiveMessages

C7_Witness ==
    /\ clsOut = TimeoutMessage
    /\ clsIn.statusCode >= 500

\* C8: while the most recently resolved send is a failed one, currentResponse
\* is one of the five messages, and neither it nor the notice is the raw
\* message of the error, also when the value caught is no APIError.
C8_NoRawErrorText ==
    LastResolvedFailed
        => /\ currentResponse \in FiveMessages
           /\ currentResponse # Caught(lastCall.result).message
           /\ currentResponse # lastCall.settled.message
           /\ lastOp = "failure"
                => /\ Len(notice) = 1
                   /\ notice[1].text \in FiveMessages
                   /\ notice[1].text # Caught(lastCall.result).message

C8_Witness ==
    /\ lastOp = "failure"
    /\ lastCall.result.how = "return"
    /\ ~Caught(lastCall.result).isAPIError
    /\ currentResponse = UnknownMessage

\* C9 as stated: for a failure of the network call, sendMessage does not
\* throw, it returns a value to its caller.
C9_ReturnsClassifiedError ==
    (lastCall.result.how # "none" /\ lastCall.settled.isAxios)
        => lastCall.result.how = "return"

\* C9, amended: for a failure of the network call, sendMessage throws an
\* APIError that carries the status of the response (0 without one) and the
\* code of the transport error; handleSend catches it.
C9_ThrowsAPIError ==
    (lastCall.result.how # "none" /\ lastCall.settled.isAxios)
        => /\ lastCall.result.how = "throw"
           /\ lastCall.result.error.isAPIError
           /\ lastCall.result.error.statusCode =
                 (IF lastCall.settled.hasResponse THEN lastCall.settled.status
                  ELSE 0)
           /\ lastCall.result.error.code = lastCall.settled.code
           /\ lastOp = "failure" => (~isLoading /\ Len(notice) = 1)

C9_Witness ==
    /\ lastOp = "failure"
    /\ lastCall.settled.isAxios
    /\ lastCall.result.how = "throw"
    /\ lastCall.result.error.statusCode = 404

SendState == [isLoading |-> isLoading]
IdleState == [isLoading |-> FALSE]

\* C11 as stated: after a failed send the send state is a third value,
\* Errored, which differs from Idle.
C11_ErroredAfterFailure ==
    lastOp = "failure" => SendState # IdleState

\* C11, amended: the send state takes two values, isLoading false (Idle) and
\* true (Sending).  A failed send leaves it Idle, as a successful one does;
\* a press with a text that is not blank is accepted after a failure and
\* enters Sending.
C11_TwoValuedSendState ==
    /\ [](isLoading \in BOOLEAN)
    /\ [](lastOp \in {"failure", "success"} => SendState = IdleState)
    /\ [][(LastResolvedFailed /\ lastOp' \in {"reject", "accept"}
                              /\ ~AllWhitespace(rendered.message))
            => (lastOp' = "accept" /\ isLoading' /\ Len(inflight') = 1)]_vars

C11_Witness ==
    /\ lastOp = "success"
    /\ sent[1].outcome = "fail"
    /\ sent[2].outcome = "ok"
    /\ ~isLoading

\* C12: when the call succeeds with a body that has no response field, the
\* placeholder is the reply: it is currentResponse and the response of the
\* Exchange appended for the send.
C12_PlaceholderForAbsentReply ==
    (lastOp = "success" /\ ~lastCall.settled.data.hasResponse)
        => /\ currentResponse = Placeholder
           /\ Len(chatHistory) = Len(SelectSeq(sent, IsOk))
           /\ chatHistory # <<>>
           /\ chatHistory[Len(chatHistory)].response = Placeholder
           /\ chatHistory[Len(chatHistory)].message = sent[Len(sent)].text

C12_Witness ==
    /\ lastOp = "success"
    /\ lastCall.settled.data = NoBody
    /\ currentResponse = Placeholder
    /\ Len(chatHistory) = 2

IsPrefix(s, u) == Len(s) <= Len(u) /\ SubSeq(u, 1, Len(s)) = s

\* C13: the log is append-only: every step leaves chatHistory a prefix of
\* its next value, so no Exchange is removed, moved or changed.
C13_AppendOnly ==
    [][IsPrefix(chatHistory, chatHistory')]_vars

C13_Witness ==
    /\ Len(chatHistory) = 2
    /\ chatHistory[1] # chatHistory[2]

\* C14: no two entries of chatHistory have the same id, also when two sends
\* resolve within one clock tick.
C14_IdsUnique ==
    \A j, k \in 1..Len(chatHistory) :
        j # k => chatHistory[j].id # chatHistory[k].id

\* C15: along the log the timestamps do not decrease.
C15_TimestampsNonDecreasing ==
    \A k \in 1..(Len(chatHistory) - 1) :
        chatHistory[k].timestamp <= chatHistory[k + 1].timestamp

C15_Witness ==
    /\ Len(chatHistory) = 2
    /\ chatHistory[1].timestamp < chatHistory[2].timestamp

\* C20: the API layer retries: when the call fails with a network error or a
\* timeout, it is issued again before the failure is reported, so by the
\* time a failure is reported more calls were issued than submits accepted.
C20_RetriesBeforeReport ==
    (lastOp = "failure" /\ lastCall.settled.isAxios
                        /\ ~lastCall.settled.hasResponse)
        => posts > Len(sent)

-----------------------------------------------------------------------------
(* The chat with texts at the length limit of the TextInput *)

Repeat(c, n) == [k \in 1..n |-> c]

\* texts of MaxLength and of MaxLength + 1 characters
LongTexts ==
    { <<>>,
      <<" ">> \o Repeat("a", MaxLength - 2) \o <<"\n">>,
      Repeat("a", MaxLength + 1),
      Repeat(" ", MaxLength) \o <<"a">> }

LengthSettlements ==
    { Fulfilled(Body(FALSE, TRUE, "r1")),
      AxiosError("timeout of 30000ms exceeded", FALSE, 0, "ECONNABORTED") }

NextLength ==
    \/ \E t \in LongTexts : ChangeText(t)
    \/ PressDisabled
    \/ PressSend
    \/ \E s \in LengthSettlements : Settle(s, TRUE)

SpecLength == Init /\ [][NextLength]_vars

\* non-empty, no whitespace at either end, at most MaxLength characters
WellFormedText(t) ==
    /\ t # <<>>
    /\ t[1] \notin Whitespace
    /\ t[Len(t)] \notin Whitespace
    /\ Len(t) <= MaxLength

\* C16: the message of every Exchange, and every text passed to
\* chatAPI.sendMessage, is non-empty, has no whitespace at its ends and has
\* at most 1000 characters.
C16_MessagesWellFormed ==
    /\ \A k \in 1..Len(chatHistory) : WellFormedText(chatHistory[k].message)
    /\ \A k \in 1..Len(sent) : WellFormedText(sent[k].text)
    /\ \A k \in 1..Len(inflight) : WellFormedText(inflight[k].text)
    /\ Len(message) <= MaxLength

C16_Witness ==
    /\ chatHistory # <<>>
    /\ Len(chatHistory[1].message) = MaxLength
    /\ lastOp = "reject"
    /\ Len(message) = MaxLength

-----------------------------------------------------------------------------
(* The navigation shell of App: the app-level ErrorBoundary around the      *)
(* navigator, and per screen an ErrorBoundary around a Suspense around the  *)
(* React.lazy screen.  ChatScreen's own state is left where Init puts it.   *)

MaxNavs == 2       \* navigations to Settings per behaviour

chat == <<message, currentResponse, isLoading, chatHistory, rendered, inflight,
          clock, notice, lastCall, sent, posts>>

Other(s) == IF s = "Chat" THEN "Settings" ELSE "Chat"

\* the Stack.Screen of s is on the stack: Chat always, Settings while shown
Mounted(s) == s = "Chat" \/ route = "Settings"

NearestBoundary_appOnly(s) == "App"

\* the ErrorBoundary closest above the subtree of screen s
NearestBoundary(s) == s

StartsLoad_everyMount(status) == TRUE

\* whether rendering a lazy component calls its import(): only the first
\* render does, the lazy object keeps the promise
StartsLoad(status) == status = "uninitialized"

lazyAfterReject_swallowed == "pending"

\* the status a lazy component takes when its import() rejects
lazyAfterReject == "rejected"

\* what is on display where screen s is mounted
View(s) ==
    IF boundary["App"] = "faulted" THEN "appFallback"
    ELSE IF ~Mounted(s) THEN "none"
    ELSE IF boundary[s] = "faulted" THEN "fallback"
    ELSE IF lazy[s] = "resolved" THEN "screen"
    ELSE "placeholder"

Renders(s) == View(s) = "screen"

FaultOp  == [Chat |-> "faultChat", Settings |-> "faultSettings"]
LoadedOp == [Chat |-> "loadedChat", Settings |-> "loadedSettings"]
FailedOp == [Chat |-> "loadFailedChat", Settings |-> "loadFailedSettings"]
ResetOp  == [App |-> "resetApp", Chat |-> "resetChat", Settings |-> "resetSettings"]

\* the status of lazy screen s once its subtree has rendered
LazyOnRender(s) == IF StartsLoad(lazy[s]) THEN "pending" ELSE lazy[s]

\* a boundary that catches a fault shows its fallback
Catch(b, at) == [b EXCEPT ![at] = "faulted"]

\* handleNavigateToSettings with the screen it opens: Settings is pushed, its
\* boundary is mounted afresh and its subtree renders, which starts the
\* import on the first render and throws if the import had failed
OpenSettings ==
    /\ route = "Chat"
    /\ Renders("Chat")
    /\ navs < MaxNavs
    /\ route' = "Settings"
    /\ navs' = navs + 1
    /\ lazy' = [lazy EXCEPT !["Settings"] = LazyOnRender("Settings")]
    /\ loads' = [loads EXCEPT !["Settings"] =
                    IF StartsLoad(lazy["Settings"]) THEN @ + 1 ELSE @]
    /\ boundary' = IF lazy'["Settings"] = "rejected"
                   THEN Catch([boundary EXCEPT !["Settings"] = "healthy"],
                              NearestBoundary("Settings"))
                   ELSE [boundary EXCEPT !["Settings"] = "healthy"]
    /\ lastOp' = "open"
    /\ UNCHANGED <<chat, harness>>

\* navigation.goBack(), by handleBackPress or by the back gesture: Settings
\* is popped and its boundary unmounted with it
CloseSettings ==
    /\ route = "Settings"
    /\ boundary["App"] = "healthy"
    /\ route' = "Chat"
    /\ boundary' = [boundary EXCEPT !["Settings"] = "healthy"]
    /\ lastOp' = "close"
    /\ UNCHANGED <<chat, harness, lazy, loads, navs>>

\* the import() of screen s fulfils
LoadResolves(s) ==
    /\ lazy[s] = "pending"
    /\ lazy' = [lazy EXCEPT ![s] = "resolved"]
    /\ lastOp' = LoadedOp[s]
    /\ UNCHANGED <<chat, harness, route, boundary, loads, navs>>

\* the import() of screen s rejects: where the screen is mounted, the lazy
\* component throws the error on the render that follows
LoadRejects(s) ==
    /\ lazy[s] = "pending"
    /\ lazy' = [lazy EXCEPT ![s] = lazyAfterReject]
    /\ boundary' = IF /\ Mounted(s)
                      /\ boundary["App"] = "healthy"
                      /\ lazy'[s] = "rejected"
                   THEN Catch(boundary, NearestBoundary(s))
                   ELSE boundary
    /\ lastOp' = FailedOp[s]
    /\ UNCHANGED <<chat, harness, route, loads, navs>>

\* rendering or a handler inside the subtree of screen s raises
FaultIn(s) ==
    /\ Renders(s)
    /\ boundary' = Catch(boundary, NearestBoundary(s))
    /\ lastOp' = FaultOp[s]
    /\ UNCHANGED <<chat, harness, route, lazy, loads, navs>>

\* rendering raises inside App but outside the two screens' boundaries
FaultOutside ==
    /\ boundary["App"] = "healthy"
    /\ boundary' = Catch(boundary, "App")
    /\ lastOp' = "faultShell"
    /\ UNCHANGED <<chat, harness, route, lazy, loads, navs>>

\* the user resets a screen's boundary: its children are mounted again
ResetScreen(s) ==
    /\ View(s) = "fallback"
    /\ boundary' = IF lazy[s] = "rejected" THEN boundary
                   ELSE [boundary EXCEPT ![s] = "healthy"]
    /\ lastOp' = ResetOp[s]
    /\ UNCHANGED <<chat, harness, route, lazy, loads, navs>>

\* the user resets the app-level boundary: the navigator is mounted again
\* on its initial route
ResetApp ==
    /\ boundary["App"] = "faulted"
    /\ route' = "Chat"
    /\ boundary' = [b \in Boundaries |->
                      IF b = "Chat" /\ lazy["Chat"] = "rejected" THEN "faulted"
                      ELSE "healthy"]
    /\ lastOp' = ResetOp["App"]
    /\ UNCHANGED <<chat, harness, lazy, loads, navs>>

InitShell ==
    /\ message = <<>>
    /\ currentResponse = ""
    /\ isLoading = FALSE
    /\ chatHistory = <<>>
    /\ rendered = Render(<<>>, FALSE)
    /\ inflight = <<>>
    /\ clock = 0
    /\ route = "Chat"
    /\ lastOp = "init"
    /\ notice = <<>>
    /\ lastCall = [settled |-> Fulfilled(NoBody), result |-> NoCall]
    /\ sent = <<>>
    /\ posts = 0
    /\ clsIn = NoError
    /\ clsOut = ""
    /\ ShellWith("pending")

NextShell ==
    \/ OpenSettings
    \/ CloseSettings
    \/ \E s \in Routes : LoadResolves(s)
    \/ \E s \in Routes : LoadRejects(s)
    \/ \E s \in Routes : FaultIn(s)
    \/ FaultOutside
    \/ \E s \in Routes : ResetScreen(s)
    \/ ResetApp

SpecShell == InitShell /\ [][NextShell]_vars

-----------------------------------------------------------------------------
(* C17: a fault raised inside the subtree of one screen's boundary (Chat or *)
(* Settings) puts that screen's boundary, and no other, into its fallback   *)
(* state: the other screen's boundary and the app-level boundary are as     *)
(* they were, and the other screen, if it rendered before, renders still.   *)
C17_FaultStaysInItsBoundary ==
    [][\A s \in Routes :
          lastOp' = FaultOp[s] =>
              /\ boundary'[s] = "faulted"
              /\ View(s)' = "fallback"
              /\ boundary'[Other(s)] = boundary[Other(s)]
              /\ boundary'["App"] = boundary["App"]
              /\ View(Other(s))' = View(Other(s))]_vars

C17_Witness ==
    /\ lastOp = FaultOp["Settings"]
    /\ boundary["Settings"] = "faulted"
    /\ boundary["Chat"] = "healthy"
    /\ Renders("Chat")

(* C18: a screen's implementation is loaded at most once and lazily: the    *)
(* load of Settings starts in the first navigation to Settings and in no    *)
(* other step, nothing of Settings is loaded before that navigation, and    *)
(* the load of Chat, the initial route, is the one started at launch.       *)
C18_LoadedOnceOnFirstNavigation ==
    /\ [](\A s \in Routes : loads[s] <= 1)
    /\ [](loads["Chat"] = 1)
    /\ [](navs = 0 => /\ loads["Settings"] = 0
                      /\ lazy["Settings"] = "uninitialized")
    /\ [](navs > 0 => loads["Settings"] = 1)
    /\ [][loads' # loads => /\ lastOp' = "open"
                            /\ navs = 0
                            /\ loads'["Settings"] = 1]_vars

C18_Witness ==
    /\ navs = MaxNavs
    /\ route = "Settings"
    /\ loads["Settings"] = 1
    /\ lazy["Settings"] = "resolved"
    /\ Renders("Settings")

(* C19: when the load of a screen's implementation fails, the boundary of   *)
(* that screen catches it: where the screen is mounted that boundary shows  *)
(* its fallback in place of the placeholder, the other screen's boundary    *)
(* and view and the app-level boundary are as they were, and a screen whose *)
(* load has failed never shows the placeholder.                             *)
C19_LoadFailureCaughtByScreenBoundary ==
    /\ [][\A s \in Routes :
            lastOp' = FailedOp[s] =>
                /\ lazy'[s] = "rejected"
                /\ (Mounted(s) /\ boundary["App"] = "healthy" =>
                        /\ View(s) = "placeholder"
                        /\ boundary'[s] = "faulted"
                        /\ View(s)' = "fallback")
                /\ boundary'[Other(s)] = boundary[Other(s)]
                /\ boundary'["App"] = boundary["App"]
                /\ View(Other(s))' = View(Other(s))]_vars
    /\ [](\A s \in Routes :
            lazy[s] = "rejected" =>
                /\ View(s) # "placeholder"
                /\ View(s) # "screen"
                /\ (Mounted(s) /\ boundary["App"] = "healthy" =>
                        View(s) = "fallback"))

C19_Witness ==
    /\ lastOp = FailedOp["Settings"]
    /\ route = "Settings"
    /\ lazy["Settings"] = "rejected"
    /\ View("Settings") = "fallback"
    /\ boundary["Chat"] = "healthy"
    /\ Renders("Chat")

-----------------------------------------------------------------------------
(* The chat with its scheduling: every apiClient.post settles, with a       *)
(* response or an error or, at the latest, with the ECONNABORTED that the   *)
(* timeout of the client raises, and React commits every render it has      *)
(* scheduled.                                                               *)

\* what the timeout of the client (API_CONFIG.TIMEOUT) settles a call with
TimedOut == AxiosError("timeout of 30000ms exceeded", FALSE, 0, "ECONNABORTED")

SettleSome == \E s \in Settlements, synchronous \in BOOLEAN : Settle(s, synchronous)

SpecLive == Init /\ [][Next]_vars /\ WF_vars(SettleSome) /\ WF_vars(Commit)

(* C21: every accepted submit leaves Sending: a call in flight settles, the *)
(* timeout among the ways it can, and isLoading, set by the submit, is      *)
(* false again after a successful as after a failed resolution; the send    *)
(* button, disabled by the submit, is enabled again.                        *)
C21_SendingEnds ==
    /\ TimedOut \in Settlements
    /\ [](\A k \in 1..Len(sent) :
            sent[k].outcome = "pending" => isLoading /\ inflight # <<>>)
    /\ (isLoading \/ inflight # <<>> \/ rendered.disabled)
          ~> (~isLoading /\ inflight = <<>> /\ ~rendered.disabled)

C21_Witness ==
    /\ Len(sent) = 2
    /\ sent[1].outcome = "fail"
    /\ sent[2].outcome = "ok"
    /\ ~isLoading
    /\ ~rendered.disabled

-----------------------------------------------------------------------------
(* C22: the input buffer is cleared by the accepted submit, before the      *)
(* request resolves, and the send lifecycle never puts a text back: it is   *)
(* empty while the send is in progress and empty after a successful as      *)
(* after a failed resolution; only an edit by the user fills it again.      *)
C22_BufferClearedOnSubmit ==
    /\ [](isLoading \/ inflight # <<>> => message = <<>>)
    /\ [][/\ lastOp' = "accept" =>
                /\ rendered.message # <<>>
                /\ message' = <<>>
                /\ rendered'.message = <<>>
                /\ inflight' # <<>>
          /\ lastOp' \in {"success", "failure"} =>
                message = <<>> /\ message' = <<>>
          /\ message' # message /\ message' # <<>> => lastOp' = "edit"]_vars

C22_Witness ==
    /\ lastOp = "failure"
    /\ message = <<>>
    /\ sent # <<>>
    /\ sent[Len(sent)].outcome = "fail"
    /\ sent[Len(sent)].raw # <<>>

-----------------------------------------------------------------------------
\* the kind predicates of APIError that hold of e
KindsOf(e) ==
    {k \in {"Timeout", "Network", "Server", "Client"} :
        \/ k = "Timeout" /\ isTimeoutError(e)
        \/ k = "Network" /\ isNetworkError(e)
        \/ k = "Server" /\ isServerError(e)
        \/ k = "Client" /\ isClientError(e)}

(* C23, as stated: for every APIError the four kind predicates are pairwise *)
(* mutually exclusive, so that at most one of them holds.                   *)
C23_PredicatesExclusive == Cardinality(KindsOf(clsIn)) <= 1

(* C23, amended: every APIError is classified to exactly one of the five    *)
(* messages, by the first predicate that holds in the order timeout,        *)
(* network, server, client; the three status predicates exclude each other, *)
(* the timeout predicate overlaps them and wins, and Unknown is the case    *)
(* where none of the four holds.                                            *)
C23_OneKindByPriority ==
    /\ Cardinality(KindsOf(clsIn) \ {"Timeout"}) <= 1
    /\ clsOut # "" =>
          /\ clsOut \in FiveMessages
          /\ clsOut = TimeoutMessage <=> "Timeout" \in KindsOf(clsIn)
          /\ clsOut = NetworkMessage <=> KindsOf(clsIn) = {"Network"}
          /\ clsOut = ServerMessage <=> KindsOf(clsIn) = {"Server"}
          /\ clsOut = ClientMessage <=> KindsOf(clsIn) = {"Client"}
          /\ clsOut = UnknownMessage <=> KindsOf(clsIn) = {}

C23_Witness ==
    /\ clsOut = TimeoutMessage
    /\ KindsOf(clsIn) = {"Timeout", "Network"}

-----------------------------------------------------------------------------
\* a submit whose call has not resolved yet
SomePending == \E k \in 1..Len(sent) : sent[k].outcome = "pending"

(* C24: isLoading mirrors the request in flight: in every reachable state   *)
(* isLoading is true exactly when a call started by handleSend has not      *)
(* resolved yet, and while one is outstanding the send button is disabled.  *)
C24_LoadingMirrorsInFlight ==
    /\ isLoading <=> inflight # <<>>
    /\ isLoading <=> SomePending
    /\ inflight # <<>> => rendered.disabled
    /\ ~rendered.disabled => ~isLoading

C24_Witness ==
    /\ Len(sent) = 2
    /\ sent[1].outcome = "fail"
    /\ sent[2].outcome = "pending"
    /\ isLoading
    /\ Len(inflight) = 1
    /\ rendered.disabled

-----------------------------------------------------------------------------
\* the most recently resolved send succeeded
LastResolvedOk ==
    LET done == SelectSeq(sent, IsResolved)
    IN  done # <<>> /\ done[Len(done)].outcome = "ok"

LastExchange == chatHistory[Len(chatHistory)]

(* C25: whenever the most recently resolved send succeeded, currentResponse *)
(* is the response of the last exchange of chatHistory; after a failed send *)
(* currentResponse is the error message, which the log does not hold: the   *)
(* failure leaves the log as it was, its last entry being the exchange of   *)
(* the last successful send.                                                *)
C25_CurrentResponseAgainstLog ==
    /\ [](LastResolvedOk =>
            /\ chatHistory # <<>>
            /\ currentResponse = LastExchange.response)
    /\ [](LastResolvedFailed =>
            /\ currentResponse \in FiveMessages
            /\ Len(chatHistory) = Len(OkTexts)
            /\ chatHistory # <<>> =>
                  /\ LastExchange.message = OkTexts[Len(OkTexts)]
                  /\ LastExchange.response # currentResponse)
    /\ [][lastOp' = "failure" =>
            /\ chatHistory' = chatHistory
            /\ currentResponse' = notice'[1].text]_vars

C25_Witness ==
    /\ Len(sent) = 2
    /\ sent[1].outcome = "ok"
    /\ sent[2].outcome = "fail"
    /\ Len(chatHistory) = 1
    /\ currentResponse \in FiveMessages
    /\ LastExchange.response = "r1"

-----------------------------------------------------------------------------
\* the call settled with a fault that is no Axios error
NonAxiosFault(s) == ~s.ok /\ ~s.isAxios

(* C26: a fault of the outbound call that is not an Axios error is wrapped  *)
(* by chatAPI.sendMessage as an APIError with status 0 and no code, so the  *)
(* user is told the server cannot be reached and never the Unknown message; *)
(* the Unknown message is shown only for an APIError that is no timeout and *)
(* has a status in 1..399, or for a caught value that is no APIError.       *)
C26_NonTransportFaultIsNetwork ==
    [][lastOp' = "failure" =>
         LET error == Caught(lastCall'.result)
         IN  /\ NonAxiosFault(lastCall'.settled) =>
                   /\ lastCall'.result =
                         Threw(APIError("Unknown error occurred", 0, NoCode))
                   /\ currentResponse' = NetworkMessage
                   /\ notice' = <<ErrorNotice(NetworkMessage)>>
             /\ currentResponse' = UnknownMessage =>
                   \/ ~error.isAPIError
                   \/ /\ error.code # "ECONNABORTED"
                      /\ error.statusCode \in 1..399]_vars

C26_Witness ==
    /\ lastOp = "failure"
    /\ NonAxiosFault(lastCall.settled)
    /\ lastCall.result.error.statusCode = 0
    /\ lastCall.result.error.code = NoCode
    /\ currentResponse = NetworkMessage

-----------------------------------------------------------------------------
\* the body has no reply to show: its response field is absent or empty
NoReply(body) == ~body.hasResponse \/ body.response = ""

(* C27: every Exchange of chatHistory has a non-empty response: a           *)
(* successful reply whose response field is absent or the empty string is   *)
(* stored, and shown as currentResponse, as the placeholder text.           *)
C27_ResponsesNonEmpty ==
    /\ [](\A k \in 1..Len(chatHistory) : chatHistory[k].response # "")
    /\ [](LastResolvedOk => currentResponse # "")
    /\ [][lastOp' = "success" =>
            /\ Len(chatHistory') = Len(chatHistory) + 1
            /\ LastExchange'.response = currentResponse'
            /\ IF NoReply(lastCall'.settled.data)
               THEN currentResponse' = Placeholder
               ELSE currentResponse' = lastCall'.settled.data.response]_vars

C27_Witness ==
    /\ lastOp = "success"
    /\ lastCall.settled.data = Body(FALSE, TRUE, "")
    /\ LastExchange.response = Placeholder
    /\ currentResponse = Placeholder

-----------------------------------------------------------------------------
\* the events raised inside a screen's subtree: a throw, a failed load
ScreenFaultOps == {FaultOp[s] : s \in Routes} \cup {FailedOp[s] : s \in Routes}

(* C28: the boundaries are nested and the innermost one handles a fault: a  *)
(* fault raised inside a screen's subtree never changes the app-level       *)
(* boundary, which goes to its fallback only for a fault raised outside the *)
(* two screens' boundaries; after a screen fault the navigator is still in  *)
(* place, on the route it was on, with the other screen as it was.          *)
C28_InnermostBoundaryHandles ==
    /\ [][/\ lastOp' \in ScreenFaultOps =>
                /\ boundary'["App"] = boundary["App"]
                /\ route' = route
          /\ (boundary["App"] = "healthy" /\ boundary'["App"] = "faulted") =>
                /\ lastOp' = "faultShell"
                /\ \A s \in Routes : boundary'[s] = boundary[s]]_vars
    /\ [](\A s \in Routes :
            lastOp = FaultOp[s] =>
                /\ boundary["App"] = "healthy"
                /\ boundary[s] = "faulted"
                /\ View(s) = "fallback"
                /\ View(Other(s)) # "appFallback")

C28_Witness ==
    /\ lastOp = FaultOp["Chat"]
    /\ boundary = [b \in Boundaries |-> IF b = "Chat" THEN "faulted" ELSE "healthy"]
    /\ route = "Settings"
    /\ Renders("Settings")

====
